---- MODULE Spec2Model ----
(***************************************************************************)
(* Model of the experiment platform: the statistics service                *)
(* (services/statistics.js), the LLM providers (services/llm), and the     *)
(* useExperiment hook that drives them.                                     *)
(*                                                                         *)
(* JavaScript numbers are modelled as a tagged value: a finite number in   *)
(* decimal fixed point (four fractional digits, v = round(x * Scale)), or  *)
(* one of the IEEE specials NaN, +Infinity, -Infinity.  The sign of zero   *)
(* is not modelled: every zero divisor the code can produce (a square      *)
(* root, a length, a length minus one) is +0.  An intermediate result      *)
(* beyond the 32-bit range of TLC's integers is an overflow error of TLC   *)
(* instead of a silently wrong value.                                      *)
(***************************************************************************)
EXTENDS Integers, Sequences, FiniteSets, TLC

\* ------------------------------------------------------------ bounds

\* Longest enumerated sample of ratings.
MaxLen == 3

\* Number of equally spaced values Math.random() is drawn from.
RandomSteps == 8

\* Longest enumerated image body after the data URL prefix.
MaxImageLen == 2

\* Longest enumerated reply text of the model server.
MaxReplyLen == 3

\* Number of runExperiment calls of one behaviour.
MaxCalls == 2

\* ------------------------------------------------- JavaScript numbers

Scale == 100 * 100

\* Largest integer of TLC's arithmetic, 2^31 - 1.
MaxInt == 1073741823 * 2 + 1

NaN == [k |-> "nan", v |-> 0]

PosInf == [k |-> "inf", v |-> 0]

NegInf == [k |-> "ninf", v |-> 0]

\* The finite number whose fixed-point representation is raw.
Fin(raw) == [k |-> "fin", v |-> raw]

\* The finite number with integer value n.
Num(n) == Fin(n * Scale)

IsNaN(a) == a.k = "nan"

IsFin(a) == a.k = "fin"

IsZero(a) == a.k = "fin" /\ a.v = 0

AbsI(n) == IF n < 0 THEN -n ELSE n

\* -1, 0 or 1: the sign of a number (0 for NaN).
Sgn(a) ==
  CASE a.k = "inf" -> 1
    [] a.k = "ninf" -> -1
    [] a.k = "nan" -> 0
    [] OTHER -> IF a.v > 0 THEN 1 ELSE IF a.v < 0 THEN -1 ELSE 0

InfOf(s) == IF s > 0 THEN PosInf ELSE NegInf

\* Unary minus.
Neg(a) ==
  CASE a.k = "inf" -> NegInf
    [] a.k = "ninf" -> PosInf
    [] a.k = "nan" -> NaN
    [] OTHER -> Fin(-a.v)

\* Math.abs
Abs(a) ==
  CASE a.k = "ninf" -> PosInf
    [] a.k = "fin" -> Fin(AbsI(a.v))
    [] OTHER -> a

\* a + b
Add(a, b) ==
  CASE IsNaN(a) \/ IsNaN(b) -> NaN
    [] IsFin(a) /\ IsFin(b) -> Fin(a.v + b.v)
    [] IsFin(a) -> b
    [] IsFin(b) -> a
    [] OTHER -> IF a.k = b.k THEN a ELSE NaN

\* a - b
Sub(a, b) == Add(a, Neg(b))

\* |a| * |b| / Scale on raw non-negative integers, rounded to nearest.
MulRaw(a, b) ==
  LET ah == a \div Scale
      al == a % Scale
      bh == b \div Scale
      bl == b % Scale
  IN  ah * bh * Scale + ah * bl + al * bh + (al * bl + Scale \div 2) \div Scale

\* a * b
Mul(a, b) ==
  CASE IsNaN(a) \/ IsNaN(b) -> NaN
    [] IsFin(a) /\ IsFin(b) ->
         Fin(Sgn(a) * Sgn(b) * MulRaw(AbsI(a.v), AbsI(b.v)))
    [] OTHER -> IF Sgn(a) * Sgn(b) = 0 THEN NaN ELSE InfOf(Sgn(a) * Sgn(b))

\* The next n decimal digits of r / b (0 <= r < b), appended to acc.
RECURSIVE FracDigits(_, _, _, _)
FracDigits(r, b, n, acc) ==
  IF n = 0 THEN acc
  ELSE FracDigits((r * 10) % b, b, n - 1, acc * 10 + (r * 10) \div b)

\* a * Scale / b on raw integers, a >= 0, b > 0, truncated.  A divisor too
\* large for the digit-by-digit division is first scaled down with a.
RECURSIVE DivRaw(_, _)
DivRaw(a, b) ==
  IF b > MaxInt \div 10 THEN DivRaw(a \div 10, b \div 10)
  ELSE (a \div b) * Scale + FracDigits(a % b, b, 4, 0)

\* a / b
Div(a, b) ==
  CASE IsNaN(a) \/ IsNaN(b) -> NaN
    [] IsFin(a) /\ IsFin(b) ->
         IF b.v = 0
         THEN IF a.v = 0 THEN NaN ELSE InfOf(Sgn(a))
         ELSE Fin(Sgn(a) * Sgn(b) * DivRaw(AbsI(a.v), AbsI(b.v)))
    [] IsFin(a) -> Fin(0)
    [] IsFin(b) -> InfOf(Sgn(a) * (IF b.v < 0 THEN -1 ELSE 1))
    [] OTHER -> NaN

\* a < b (false when either side is NaN)
Lt(a, b) ==
  CASE IsNaN(a) \/ IsNaN(b) -> FALSE
    [] IsFin(a) /\ IsFin(b) -> a.v < b.v
    [] a.k = "ninf" -> b.k # "ninf"
    [] b.k = "inf" -> a.k # "inf"
    [] OTHER -> FALSE

\* a === b (false when either side is NaN)
StrictEq(a, b) == ~IsNaN(a) /\ ~IsNaN(b) /\ a = b

\* Newton's iteration for the square root of a raw positive integer.
RECURSIVE SqrtIter(_, _)
SqrtIter(a, x) ==
  LET y == (x + DivRaw(a, x)) \div 2
  IN  IF y >= x THEN x ELSE SqrtIter(a, y)

\* Math.sqrt
Sqrt(a) ==
  CASE a.k = "nan" \/ a.k = "ninf" -> NaN
    [] a.k = "inf" -> PosInf
    [] OTHER ->
         IF a.v < 0 THEN NaN
         ELSE IF a.v = 0 THEN Fin(0)
         ELSE Fin(SqrtIter(a.v, IF a.v > Scale THEN a.v ELSE Scale))

\* ln(2) * n * Scale, from ln 2 = 0.693147.
Ln2Times(n) == (n * 693147 + 50) \div 100

\* ln(m / Scale) * Scale for Scale <= m < 2 * Scale, by the series
\* 2 * (y + y^3/3 + y^5/5 + y^7/7 + y^9/9), y = (m - 1) / (m + 1).
LnMantissa(m) ==
  LET y == DivRaw(m - Scale, m + Scale)
      y2 == MulRaw(y, y)
      y3 == MulRaw(y, y2)
      y5 == MulRaw(y3, y2)
      y7 == MulRaw(y5, y2)
      y9 == MulRaw(y7, y2)
  IN  2 * y + (2 * y3) \div 3 + (2 * y5) \div 5 + (2 * y7) \div 7
        + (2 * y9) \div 9

\* ln(a / Scale) * Scale for a raw positive integer: a is brought into
\* [Scale, 2 * Scale) by halving or doubling, e counts the powers of two.
RECURSIVE LnRaw(_, _)
LnRaw(a, e) ==
  IF a >= 2 * Scale THEN LnRaw((a + 1) \div 2, e + 1)
  ELSE IF a < Scale THEN LnRaw(a * 2, e - 1)
  ELSE Ln2Times(e) + LnMantissa(a)

\* Math.log
Log(a) ==
  CASE a.k = "nan" \/ a.k = "ninf" -> NaN
    [] a.k = "inf" -> PosInf
    [] OTHER ->
         IF a.v < 0 THEN NaN
         ELSE IF a.v = 0 THEN NegInf
         ELSE Fin(LnRaw(a.v, 0))

\* 2^n for n >= 0
RECURSIVE TwoTo(_)
TwoTo(n) == IF n = 0 THEN 1 ELSE 2 * TwoTo(n - 1)

\* e^(r / Scale) * Scale for |r| <= ln(2) / 2, by the Taylor series.
RECURSIVE ExpSeries(_, _, _, _)
ExpSeries(r, term, n, acc) ==
  IF term = 0 \/ n > 12 THEN acc
  ELSE LET next == (Sgn(Fin(r)) * Sgn(Fin(term))
                      * MulRaw(AbsI(term), AbsI(r))) \div n
       IN  ExpSeries(r, next, n + 1, acc + term)

\* e^(a / Scale) * Scale for a raw integer: a = q * ln 2 + r, and the
\* result is e^r shifted by q binary places.  Below 2^-31 the result is 0.
ExpRaw(a) ==
  LET q == (2 * a + Ln2Times(1)) \div (2 * Ln2Times(1))
      r == a - Ln2Times(q)
      er == ExpSeries(r, Scale, 1, 0)
  IN  IF q >= 0 THEN er * TwoTo(q)
      ELSE IF -q > 30 THEN 0
      ELSE (er + TwoTo(-q) \div 2) \div TwoTo(-q)

\* Math.exp
Exp(a) ==
  CASE a.k = "nan" -> NaN
    [] a.k = "inf" -> PosInf
    [] a.k = "ninf" -> Fin(0)
    [] OTHER -> Fin(ExpRaw(a.v))

\* Math.sin for an argument in [0, pi], by the Taylor series.
RECURSIVE SinSeries(_, _, _, _)
SinSeries(x2, term, n, acc) ==
  IF term = 0 \/ n > 19 THEN acc
  ELSE SinSeries(x2, -(MulRaw(AbsI(term), x2) \div (n * (n + 1)))
                       * (IF term < 0 THEN -1 ELSE 1),
                 n + 2, acc + term)

\* Math.sin
Sin(a) ==
  IF ~IsFin(a) THEN NaN
  ELSE LET s == IF a.v < 0 THEN -1 ELSE 1
           x == AbsI(a.v) % 62832
           y == IF x > 31416 THEN x - 31416 ELSE x
           t == IF x > 31416 THEN -s ELSE s
       IN  Fin(t * SinSeries(MulRaw(y, y), y, 2, 0))

\* Math.round: the nearest integer, a half rounded up.
Round(a) ==
  IF IsFin(a) THEN Fin(((a.v + Scale \div 2) \div Scale) * Scale) ELSE a

\* Math.min
Min(a, b) ==
  IF IsNaN(a) \/ IsNaN(b) THEN NaN ELSE IF Lt(b, a) THEN b ELSE a

\* Math.max
Max(a, b) ==
  IF IsNaN(a) \/ IsNaN(b) THEN NaN ELSE IF Lt(a, b) THEN b ELSE a

\* Whether a is a finite number with no fractional part.
IsInteger(a) == IsFin(a) /\ a.v % Scale = 0

\* Math.PI
Pi == Fin(31416)

\* Math.pow(a, 2)
Square(a) == Mul(a, a)

\* ------------------------------------------- services/statistics.js

\* arr.reduce((sum, val) => sum + val, 0) over the first n elements.
RECURSIVE Reduce(_, _)
Reduce(arr, n) ==
  IF n = 0 THEN Num(0) ELSE Add(Reduce(arr, n - 1), arr[n])

\* A sample of integer ratings as JavaScript numbers.
ToNums(sample) == [i \in 1..Len(sample) |-> Num(sample[i])]

mean(arr) ==
  IF Len(arr) = 0 THEN Num(0)
  ELSE Div(Reduce(arr, Len(arr)), Num(Len(arr)))

\* A variant that divides by n instead of n - 1.
standardDeviationPopulation(arr) ==
  IF Len(arr) < 2 THEN Num(0)
  ELSE LET avg == mean(arr)
           squaredDiffs == [i \in 1..Len(arr) |-> Square(Sub(arr[i], avg))]
           variance == Div(Reduce(squaredDiffs, Len(arr)), Num(Len(arr)))
       IN  Sqrt(variance)

standardDeviation(arr) ==
  IF Len(arr) < 2 THEN Num(0)
  ELSE LET avg == mean(arr)
           squaredDiffs == [i \in 1..Len(arr) |-> Square(Sub(arr[i], avg))]
           variance == Div(Reduce(squaredDiffs, Len(arr)), Num(Len(arr) - 1))
       IN  Sqrt(variance)

\* The Lanczos parameter g.
g == 7

\* The Lanczos coefficients c[0..8] (here c[1..9]), in fixed point.
LanczosC ==
  <<10000, 6765204, -12591392, 7713234, -1766150, 125073, -1386, 0, 0>>

\* x += c[i] / (z + i) for i = 1 .. n
RECURSIVE LanczosSum(_, _)
LanczosSum(z, n) ==
  IF n = 0 THEN Fin(LanczosC[1])
  ELSE Add(LanczosSum(z, n - 1), Div(Fin(LanczosC[n + 1]), Add(z, Num(n))))

RECURSIVE gammaLn(_)
gammaLn(z0) ==
  IF Lt(z0, Fin(5000))
  THEN Sub(Log(Div(Pi, Sin(Mul(Pi, z0)))), gammaLn(Sub(Num(1), z0)))
  ELSE LET z == Sub(z0, Num(1))
           x == LanczosSum(z, g + 1)
           t == Add(Add(z, Num(g)), Fin(5000))
       IN  Add(Sub(Add(Mul(Fin(5000), Log(Mul(Num(2), Pi))),
                       Mul(Add(z, Fin(5000)), Log(t))),
                   t),
               Log(x))

maxIterations == 100

\* The tolerance 1e-10.  It is below the resolution of the fixed-point
\* numbers, where |v| < 1e-10 holds exactly of v = 0: epsilon is the smallest
\* positive number of the model.
epsilon == Fin(1)

\* if (Math.abs(v) < epsilon) v = epsilon
Floor(v) == IF Lt(Abs(v), epsilon) THEN epsilon ELSE v

\* A result not yet returned, a local not yet assigned.
Unset == [k |-> "unset", v |-> 0]

\* The state of betaCF before the loop: c, d, h, the number i of iterations
\* done, the del of the last iteration, and whether the loop has left by its
\* break.
betaCFInit(x, a, b) ==
  LET qab == Add(a, b)
      qap == Add(a, Num(1))
      d == Div(Num(1), Floor(Sub(Num(1), Div(Mul(qab, x), qap))))
  IN  [i |-> 0, c |-> Num(1), d |-> d, h |-> d, del |-> Unset, brk |-> FALSE]

\* One iteration of the loop of betaCF: the even step and the odd step.
betaCFIter(st, x, a, b) ==
  LET i == Num(st.i + 1)
      m2 == Num(2 * (st.i + 1))
      qab == Add(a, b)
      qap == Add(a, Num(1))
      qam == Sub(a, Num(1))
      aa1 == Div(Mul(Mul(i, Sub(b, i)), x),
                 Mul(Add(qam, m2), Add(a, m2)))
      d1 == Div(Num(1), Floor(Add(Num(1), Mul(aa1, st.d))))
      c1 == Floor(Add(Num(1), Div(aa1, st.c)))
      h1 == Mul(st.h, Mul(d1, c1))
      aa2 == Div(Mul(Mul(Neg(Add(a, i)), Add(qab, i)), x),
                 Mul(Add(a, m2), Add(qap, m2)))
      d2 == Div(Num(1), Floor(Add(Num(1), Mul(aa2, d1))))
      c2 == Floor(Add(Num(1), Div(aa2, c1)))
      del == Mul(d2, c2)
  IN  [i |-> st.i + 1, c |-> c2, d |-> d2, h |-> Mul(h1, del), del |-> del,
       brk |-> Lt(Abs(Sub(del, Num(1))), epsilon)]

\* for (let i = 1; i <= maxIterations; i++) { ... break ... }
RECURSIVE betaCFLoop(_, _, _, _)
betaCFLoop(st, x, a, b) ==
  IF st.brk \/ st.i >= maxIterations THEN st
  ELSE betaCFLoop(betaCFIter(st, x, a, b), x, a, b)

betaCF(x, a, b) == betaCFLoop(betaCFInit(x, a, b), x, a, b).h

\* The part of incompleteBeta after its two boundary returns.
incompleteBetaCF(x, a, b) ==
  LET bt == Exp(Add(Add(Sub(Sub(gammaLn(Add(a, b)), gammaLn(a)),
                            gammaLn(b)),
                        Mul(a, Log(x))),
                    Mul(b, Log(Sub(Num(1), x)))))
  IN  IF Lt(x, Div(Add(a, Num(1)), Add(Add(a, b), Num(2))))
      THEN Div(Mul(bt, betaCF(x, a, b)), a)
      ELSE Sub(Num(1), Div(Mul(bt, betaCF(Sub(Num(1), x), b, a)), b))

\* A variant that tests the boundaries with negated order comparisons,
\* if (!(x > 0)) return 0; if (!(x < 1)) return 1: NaN takes the first.
incompleteBetaNegated(x, a, b) ==
  IF ~Lt(Num(0), x) THEN Num(0)
  ELSE IF ~Lt(x, Num(1)) THEN Num(1)
  ELSE incompleteBetaCF(x, a, b)

incompleteBeta(x, a, b) ==
  IF StrictEq(x, Num(0)) THEN Num(0)
  ELSE IF StrictEq(x, Num(1)) THEN Num(1)
  ELSE incompleteBetaCF(x, a, b)

\* A variant that leaves out the factor 0.5.
tCDFWhole(t, df) ==
  LET x == Div(df, Add(df, Mul(t, t)))
  IN  Sub(Num(1), incompleteBeta(x, Div(df, Num(2)), Fin(5000)))

tCDF(t, df) ==
  LET x == Div(df, Add(df, Mul(t, t)))
  IN  Sub(Num(1), Mul(Fin(5000), incompleteBeta(x, Div(df, Num(2)), Fin(5000))))

\* A variant with the threshold mistyped as 0.5.
ThresholdTypo == Fin(5000)

\* The significance threshold 0.05 of independentTTest.
Threshold == Fin(500)

\* A variant that takes the standard error from the first sample alone.
seFirst(var1, n1, var2, n2) == Sqrt(Div(var1, n1))

\* const se: the standard error of Welch's t-test.
se(var1, n1, var2, n2) == Sqrt(Add(Div(var1, n1), Div(var2, n2)))

\* A variant that divides by n - 1, or by 1 where n - 1 is 0.
dfGuarded(var1, n1, var2, n2) ==
  LET m1 == IF n1 = Num(1) THEN Num(1) ELSE Sub(n1, Num(1))
      m2 == IF n2 = Num(1) THEN Num(1) ELSE Sub(n2, Num(1))
  IN  Div(Square(Add(Div(var1, n1), Div(var2, n2))),
          Add(Div(Square(Div(var1, n1)), m1), Div(Square(Div(var2, n2)), m2)))

\* const df: the Welch-Satterthwaite degrees of freedom.
df(var1, n1, var2, n2) ==
  LET numerator == Square(Add(Div(var1, n1), Div(var2, n2)))
      denominator == Add(Div(Square(Div(var1, n1)), Sub(n1, Num(1))),
                         Div(Square(Div(var2, n2)), Sub(n2, Num(1))))
  IN  Div(numerator, denominator)

\* const pValue: the two-tailed p-value.
pValue(tStatistic, dof) ==
  Mul(Num(2), Sub(Num(1), tCDF(Abs(tStatistic), dof)))

independentTTest(s1, s2) ==
  LET n1 == Num(Len(s1))
      n2 == Num(Len(s2))
      mean1 == mean(s1)
      mean2 == mean(s2)
      std1 == standardDeviation(s1)
      std2 == standardDeviation(s2)
      var1 == Mul(std1, std1)
      var2 == Mul(std2, std2)
      tStatistic == Div(Sub(mean1, mean2), se(var1, n1, var2, n2))
      dof == df(var1, n1, var2, n2)
      p == pValue(tStatistic, dof)
  IN  [mean1 |-> mean1, mean2 |-> mean2, std1 |-> std1, std2 |-> std2,
       tStatistic |-> tStatistic, degreesOfFreedom |-> dof,
       pValue |-> p, isSignificant |-> Lt(p, Threshold),
       effectSize |-> Div(Sub(mean1, mean2),
                          Sqrt(Div(Add(var1, var2), Num(2))))]

\* --------------------------------------- services/llm/providers

\* Strings are sequences of character codes.
IsWordChar(ch) ==
  \/ ch \in 48..57
  \/ ch \in 65..90
  \/ ch \in 97..122
  \/ ch = 95

IsSpace(ch) == ch \in {9, 10, 13, 32}

\* hash = ((hash << 5) - hash) + char; hash = hash & hash: 31 * h + char
\* reduced to a signed 32-bit integer, computed on the two 16-bit halves of h.
HashStep(h, char) ==
  LET hi == (h \div 65536) % 65536
      lo == h % 65536
      lo2 == 31 * lo + char
      hi2 == (31 * hi + (lo2 \div 65536)) % 65536
  IN  (IF hi2 >= 32768 THEN hi2 - 65536 ELSE hi2) * 65536 + (lo2 % 65536)

\* The loop of simpleHash from character i on, up to character n, with the
\* value hash so far.  Each step's value is computed before the next step.
RECURSIVE HashLoop(_, _, _, _)
HashLoop(str, i, n, hash) ==
  IF i > n THEN hash
  ELSE CHOOSE r \in {HashLoop(str, i + 1, n, next) :
                       next \in {HashStep(hash, str[i])}} : TRUE

\* MockProvider.simpleHash.  Math.abs of -2^31 is outside TLC's integers,
\* where its evaluation is an error.
simpleHash(str) ==
  LET sampleSize == IF Len(str) < 1000 THEN Len(str) ELSE 1000
      hash == HashLoop(str, 1, sampleSize, 0)
  IN  IF hash < 0 THEN 0 - hash ELSE hash

\* A variant of MockProvider.rateImage without Math.round.
rateImageUnrounded(imageBase64, random) ==
  LET baseRating == Num(3 + (simpleHash(imageBase64) % 5))
      variation == Mul(Sub(random, Fin(5000)), Num(4))
  IN  Min(Num(10), Max(Num(1), Add(baseRating, variation)))

\* MockProvider.rateImage, given the value random that Math.random()
\* returns for the variation.
rateImage(imageBase64, random) ==
  LET hash == simpleHash(imageBase64)
      baseRating == Num(3 + (hash % 5))
      variation == Mul(Sub(random, Fin(5000)), Num(4))
  IN  Round(Min(Num(10), Max(Num(1), Add(baseRating, variation))))

\* const delayMs of MockProvider.rateImage, for the default delay
\* { min: 20, max: 50 } and the value random of Math.random().
delayMs(random) == Add(Num(20), Mul(random, Num(50 - 20)))

\* \b of a regular expression at the position after the first i characters.
WordBoundary(str, i) ==
  (i >= 1 /\ IsWordChar(str[i])) # (i < Len(str) /\ IsWordChar(str[i + 1]))

\* The text /\b([1-9]|10)\b/ matches starting at character p, or <<>>.
MatchAt(str, p) ==
  IF ~WordBoundary(str, p - 1) THEN <<>>
  ELSE IF str[p] \in 49..57 /\ WordBoundary(str, p)
       THEN <<str[p]>>
  ELSE IF /\ p < Len(str)
          /\ str[p] = 49
          /\ str[p + 1] = 48
          /\ WordBoundary(str, p + 1)
       THEN <<49, 48>>
  ELSE <<>>

\* response.match(/\b([1-9]|10)\b/): the leftmost match from p on, or <<>>.
RECURSIVE Match(_, _)
Match(str, p) ==
  IF p > Len(str) THEN <<>>
  ELSE IF MatchAt(str, p) # <<>> THEN MatchAt(str, p)
  ELSE Match(str, p + 1)

\* parseInt(digits, 10) of a string of decimal digits.
RECURSIVE parseInt(_)
parseInt(digits) ==
  IF Len(digits) = 0 THEN 0
  ELSE 10 * parseInt(SubSeq(digits, 1, Len(digits) - 1))
         + (digits[Len(digits)] - 48)

\* OllamaProvider.extractRating
extractRating(response) ==
  LET match == Match(response, 1)
  IN  IF match # <<>> THEN Num(parseInt(match)) ELSE Num(5)

\* String.prototype.trim
RECURSIVE trim(_)
trim(str) ==
  IF Len(str) = 0 THEN str
  ELSE IF IsSpace(str[1]) THEN trim(Tail(str))
  ELSE IF IsSpace(str[Len(str)]) THEN trim(SubSeq(str, 1, Len(str) - 1))
  ELSE str

\* What a rejected promise settles with.
Rejected(message) == [k |-> "rejected", v |-> 0, message |-> message]

\* What OllamaProvider.rateImage settles with, given the reply of the
\* fetch: no reply (the fetch rejects), a reply that is not ok, or a reply
\* with a body whose message.content is a string or is missing.
ollamaRateImage(reply) ==
  CASE reply.kind = "failed" -> Rejected("fetch failed")
    [] reply.kind = "status" -> Rejected("Ollama API error")
    [] reply.kind = "nocontent" -> extractRating(<<>>)
    [] OTHER -> extractRating(trim(reply.content))

\* ------------------------------------------------ callers of the service

\* Rating values the enumerated samples are built from.
RatingValues == {2, 9}

\* All sequences over S of length at most n.
RECURSIVE SeqsUpTo(_, _)
SeqsUpTo(S, n) ==
  IF n = 0 THEN {<<>>}
  ELSE LET shorter == SeqsUpTo(S, n - 1)
       IN  shorter \cup {Append(s, x) : s \in {t \in shorter : Len(t) = n - 1},
                                        x \in S}

\* The two samples of the clear-separation case and of the known-value
\* regression case.
NamedSamples ==
  { <<9, 9, 9, 9, 9, 9, 9, 9, 9, 9>>, <<2, 2, 2, 2, 2, 2, 2, 2, 2, 2>>,
    <<7, 8, 7, 9, 8, 7, 8, 9, 7, 8>>, <<5, 6, 5, 7, 6, 5, 6, 7, 5, 6>> }

Samples == SeqsUpTo(RatingValues, MaxLen) \cup NamedSamples

\* Thresholds a caller may pass as a third argument: 0.05 and 0.25.
Alphas == {Fin(500), Fin(2500)}

\* Rating values of the samples handed to mean and standardDeviation.
DescValues == {1, 5, 10}

DescSamples == SeqsUpTo(DescValues, MaxLen) \cup NamedSamples

\* The values Math.random() is drawn from: k / RandomSteps.
Draws == {Fin((k * Scale) \div RandomSteps) : k \in 0..(RandomSteps - 1)}

\* "data:image/png;base64,"
DataUrlPrefix ==
  <<100, 97, 116, 97, 58, 105, 109, 97, 103, 101, 47, 112, 110, 103, 59,
    98, 97, 115, 101, 54, 52, 44>>

\* Image data: a data URL, as FileReader.readAsDataURL produces it, with a
\* body over "A", "/", "z".
Images == {DataUrlPrefix \o body : body \in SeqsUpTo({65, 47, 122}, MaxImageLen)}

\* Reply texts over "0", "1", "7", " ", "a".
ReplyTexts == SeqsUpTo({48, 49, 55, 32, 97}, MaxReplyLen)

\* Replies of the model server to the chat request.
Replies ==
  {[kind |-> "failed", content |-> <<>>],
   [kind |-> "status", content |-> <<>>],
   [kind |-> "nocontent", content |-> <<>>]}
    \cup {[kind |-> "ok", content |-> t] : t \in ReplyTexts}

\* The values of Math.random() in the runs of the hook: 0 and 0.5.
HookDraws == {Fin(0), Fin(Scale \div 2)}

\* The arguments of the runExperiment calls: image1Data, image2Data,
\* providerName and sampleSize.
HookRuns ==
  {<<DataUrlPrefix \o <<65>>, DataUrlPrefix \o <<47>>, "mock", 1>>,
   <<DataUrlPrefix \o <<65>>, DataUrlPrefix \o <<47>>, "ollama", 2>>,
   <<DataUrlPrefix \o <<65>>, DataUrlPrefix \o <<47>>, "other", 1>>}

\* The replies of the model server in the runs of the hook: an error
\* status and " 10 ".
HookReplies ==
  {[kind |-> "status", content |-> <<>>],
   [kind |-> "ok", content |-> <<32, 49, 48, 32>>]}

\* The arguments x, a and b of the calls of incompleteBeta and betaCF:
\* x over 0, 0.1, 0.25, 0.5, 0.9, 1 and NaN, a over 0.5, 1 and 2.5, b over
\* 0.5 and 2.
BetaXs == {Num(0), Fin(1000), Fin(2500), Fin(5000), Fin(9000), Num(1), NaN}

BetaAs == {Fin(5000), Num(1), Fin(25000)}

BetaBs == {Fin(5000), Num(2)}

\* No call of incompleteBeta or betaCF has been made.
IbIdle ==
  [pc |-> "idle", fn |-> "", x |-> Unset, a |-> Unset, b |-> Unset,
   bt |-> Unset, cfx |-> Unset, cfa |-> Unset, cfb |-> Unset, cf |-> Unset,
   out |-> Unset]

\* null
Null == [k |-> "null", v |-> 0]

VARIABLES
  sample1, sample2,  \* the caller's two samples
  alpha,             \* the threshold the caller passes
  meanOut,           \* what mean(sample1) returned
  stdOut,            \* what standardDeviation(sample1) returned
  tt,                \* what independentTTest(sample1, sample2, alpha) returned
  ttSwapped,         \* what independentTTest(sample2, sample1, alpha) returned
  ib,                \* a call of incompleteBeta or betaCF: its position,
                     \* arguments and locals
  providerName,      \* the provider a caller of rateImage holds
  image,             \* the image data passed to rateImage
  reply,             \* the reply of the model server
  rating,            \* what rateImage settled with
  isRunning,         \* useExperiment: the four pieces of React state
  progress,
  results,
  error,
  calls              \* useExperiment: the runExperiment calls made so far

statsVars == <<sample1, sample2, alpha, meanOut, stdOut, tt, ttSwapped, ib>>

rateVars == <<providerName, image, reply, rating>>

hookVars == <<isRunning, progress, results, error, calls>>

vars == <<statsVars, rateVars, hookVars>>

\* No provider call is being made.
RateIdle ==
  /\ providerName = "none"
  /\ image = <<>>
  /\ reply = Null
  /\ rating = Unset

\* useExperiment(): the initial values of the useState calls.
HookIdle ==
  /\ isRunning = FALSE
  /\ progress = [current |-> 0, total |-> 0]
  /\ results = Null
  /\ error = Null
  /\ calls = <<>>

StatsIdle ==
  /\ ib = IbIdle
  /\ meanOut = Unset
  /\ stdOut = Unset
  /\ tt = Unset
  /\ ttSwapped = Unset

\* A caller of mean and standardDeviation holding one sample.
DescInit ==
  /\ sample1 \in DescSamples
  /\ sample2 = <<>>
  /\ alpha = Threshold
  /\ StatsIdle
  /\ RateIdle
  /\ HookIdle

\* A caller of independentTTest holding two samples and a threshold.
StatsInit ==
  /\ sample1 \in Samples
  /\ sample2 \in Samples
  /\ alpha \in Alphas
  /\ StatsIdle
  /\ RateIdle
  /\ HookIdle

CallMean ==
  /\ meanOut = Unset
  /\ meanOut' = mean(ToNums(sample1))
  /\ UNCHANGED <<sample1, sample2, alpha, stdOut, tt, ttSwapped,
               ib, rateVars, hookVars>>

CallStandardDeviation ==
  /\ stdOut = Unset
  /\ stdOut' = standardDeviation(ToNums(sample1))
  /\ UNCHANGED <<sample1, sample2, alpha, meanOut, tt, ttSwapped,
               ib, rateVars, hookVars>>

\* independentTTest(sample1, sample2, alpha): the function declares two
\* parameters, a third argument is not read.
CallTTest ==
  /\ tt = Unset
  /\ tt' = independentTTest(ToNums(sample1), ToNums(sample2))
  /\ UNCHANGED <<sample1, sample2, alpha, meanOut, stdOut, ttSwapped,
               ib, rateVars, hookVars>>

\* independentTTest(sample2, sample1, alpha)
CallTTestSwapped ==
  /\ ttSwapped = Unset
  /\ ttSwapped' = independentTTest(ToNums(sample2), ToNums(sample1))
  /\ UNCHANGED <<sample1, sample2, alpha, meanOut, stdOut, tt,
               ib, rateVars, hookVars>>

\* A caller with no samples.
NoSamples ==
  /\ sample1 = <<>>
  /\ sample2 = <<>>
  /\ alpha = Threshold
  /\ StatsIdle

\* A caller of rateImage holding a provider, an image and, for the Ollama
\* provider, the reply the model server will give.
RateInit ==
  /\ NoSamples
  /\ HookIdle
  /\ image \in Images
  /\ rating = Unset
  /\ \/ providerName = "mock" /\ reply = Null
     \/ providerName = "ollama" /\ reply \in Replies

\* MockProvider.rateImage(image, question) settles.
MockRateImage ==
  /\ providerName = "mock"
  /\ rating = Unset
  /\ \E delayDraw \in Draws, variationDraw \in Draws :
       /\ Lt(delayMs(delayDraw), Num(50))
       /\ rating' = rateImage(image, variationDraw)
  /\ UNCHANGED <<statsVars, providerName, image, reply, hookVars>>

\* OllamaProvider.rateImage(image, question) settles.
OllamaRateImage ==
  /\ providerName = "ollama"
  /\ rating = Unset
  /\ rating' = ollamaRateImage(reply)
  /\ UNCHANGED <<statsVars, providerName, image, reply, hookVars>>

RateNext == MockRateImage \/ OllamaRateImage

DescNext == CallMean \/ CallStandardDeviation

StatsNext == CallTTest \/ CallTTestSwapped

SpecDesc == DescInit /\ [][DescNext]_vars

SpecStats == StatsInit /\ [][StatsNext]_vars

SpecRate == RateInit /\ [][RateNext]_vars

\* ------------------------------------------------- hooks/useExperiment

\* The locals of a runExperiment call that has returned.
DoneCall ==
  [pc |-> "done", providerName |-> "", image1Data |-> <<>>,
   image2Data |-> <<>>, sampleSize |-> 0, ratings1 |-> <<>>,
   ratings2 |-> <<>>]

\* A string held where null may be held.
String(text) == [k |-> "string", v |-> 0, text |-> text]

\* A variant of the failure path without the finally block.
FailNoFinally(c, message) ==
  /\ error' = String(message)
  /\ isRunning' = isRunning
  /\ calls' = [calls EXCEPT ![c] = DoneCall]

\* The catch and finally blocks of runExperiment in call c.
Fail(c, message) ==
  /\ error' = String(message)
  /\ isRunning' = FALSE
  /\ calls' = [calls EXCEPT ![c] = DoneCall]

\* The object runExperiment passes to setResults, given the statistics
\* stats that independentTTest returned.
ResultsOf(name, ratings1, ratings2, stats) ==
  [image1 |-> [ratings |-> ratings1, mean |-> stats.mean1,
               std |-> stats.std1],
   image2 |-> [ratings |-> ratings2, mean |-> stats.mean2,
               std |-> stats.std2],
   statistics |-> [tStatistic |-> stats.tStatistic,
                   degreesOfFreedom |-> stats.degreesOfFreedom,
                   pValue |-> stats.pValue,
                   isSignificant |-> stats.isSignificant,
                   effectSize |-> stats.effectSize],
   provider |-> name]

\* runExperiment from the end of the two rating loops on, in call c.
Analyse(c, ratings1, ratings2) ==
  /\ \E stats \in {independentTTest(ratings1, ratings2)} :
       results' = ResultsOf(calls[c].providerName, ratings1, ratings2, stats)
  /\ isRunning' = FALSE
  /\ calls' = [calls EXCEPT ![c] = DoneCall]
  /\ UNCHANGED error

\* runExperiment(image1Data, image2Data, question, name, {}, sampleSize)
\* up to its first await.
RunExperiment(image1Data, image2Data, name, sampleSize) ==
  /\ Len(calls) < MaxCalls
  /\ results' = Null
  /\ progress' = [current |-> 0, total |-> sampleSize * 2]
  /\ IF name \in {"mock", "ollama"}
     THEN /\ isRunning' = TRUE
          /\ error' = Null
          /\ calls' = Append(calls,
               [pc |-> "isAvailable", providerName |-> name,
                image1Data |-> image1Data, image2Data |-> image2Data,
                sampleSize |-> sampleSize, ratings1 |-> <<>>,
                ratings2 |-> <<>>])
     ELSE /\ isRunning' = FALSE
          /\ error' = String("Unknown provider")
          /\ calls' = Append(calls, DoneCall)
  /\ UNCHANGED <<statsVars, rateVars>>

\* provider.isAvailable() of call c settles with available; the call goes
\* on to its next await.
IsAvailableSettles(c, available) ==
  /\ calls[c].pc = "isAvailable"
  /\ calls[c].providerName = "mock" => available
  /\ IF ~available
     THEN Fail(c, "Provider is not available") /\ UNCHANGED results
     ELSE /\ calls' = [calls EXCEPT ![c].pc = "rateImage1"]
          /\ UNCHANGED <<isRunning, results, error>>
  /\ UNCHANGED <<statsVars, rateVars, progress>>

\* What provider.rateImage of call c may settle with for the image data.
Settlements(c, imageData) ==
  IF calls[c].providerName = "mock"
  THEN {rateImage(imageData, random) : random \in HookDraws}
  ELSE {ollamaRateImage(r) : r \in HookReplies}

\* provider.rateImage(image1Data, question) of call c settles; the call
\* goes on to its next await.
RateImage1Settles(c) ==
  /\ calls[c].pc = "rateImage1"
  /\ \E settled \in Settlements(c, calls[c].image1Data) :
       IF settled.k = "rejected"
       THEN Fail(c, settled.message) /\ UNCHANGED <<results, progress>>
       ELSE LET ratings1 == Append(calls[c].ratings1, settled)
            IN  /\ progress' = [progress EXCEPT !.current = @ + 1]
                /\ calls' = [calls EXCEPT
                     ![c].ratings1 = ratings1,
                     ![c].pc = IF Len(ratings1) < calls[c].sampleSize
                               THEN "rateImage1" ELSE "rateImage2"]
                /\ UNCHANGED <<isRunning, results, error>>
  /\ UNCHANGED <<statsVars, rateVars>>

\* provider.rateImage(image2Data, question) of call c settles; the call
\* goes on to its next await or to its end.
RateImage2Settles(c) ==
  /\ calls[c].pc = "rateImage2"
  /\ \E settled \in Settlements(c, calls[c].image2Data) :
       IF settled.k = "rejected"
       THEN Fail(c, settled.message) /\ UNCHANGED <<results, progress>>
       ELSE LET ratings2 == Append(calls[c].ratings2, settled)
            IN  /\ progress' = [progress EXCEPT !.current = @ + 1]
                /\ IF Len(ratings2) < calls[c].sampleSize
                   THEN /\ calls' = [calls EXCEPT ![c].ratings2 = ratings2]
                        /\ UNCHANGED <<isRunning, results, error>>
                   ELSE Analyse(c, calls[c].ratings1, ratings2)
  /\ UNCHANGED <<statsVars, rateVars>>

\* reset()
Reset ==
  /\ results' = Null
  /\ error' = Null
  /\ progress' = [current |-> 0, total |-> 0]
  /\ UNCHANGED <<statsVars, rateVars, isRunning, calls>>

\* useExperiment() in a component that has made no call.
HookInit ==
  /\ NoSamples
  /\ RateIdle
  /\ HookIdle

\* const canRun of App, for a component holding two images and a question.
canRun == ~isRunning

\* The hook as App drives it: the run button is disabled unless canRun, the
\* reset button is never disabled.
AppNext ==
  \/ /\ canRun
     /\ \E run \in HookRuns : RunExperiment(run[1], run[2], run[3], run[4])
  \/ \E c \in 1..Len(calls), available \in BOOLEAN :
       IsAvailableSettles(c, available)
  \/ \E c \in 1..Len(calls) : RateImage1Settles(c)
  \/ \E c \in 1..Len(calls) : RateImage2Settles(c)
  \/ Reset

HookNext ==
  \/ \E run \in HookRuns : RunExperiment(run[1], run[2], run[3], run[4])
  \/ \E c \in 1..Len(calls), available \in BOOLEAN :
       IsAvailableSettles(c, available)
  \/ \E c \in 1..Len(calls) : RateImage1Settles(c)
  \/ \E c \in 1..Len(calls) : RateImage2Settles(c)
  \/ Reset

SpecHook == HookInit /\ [][HookNext]_vars

SpecApp == HookInit /\ [][AppNext]_vars

\* provider.isAvailable() of runExperiment call c settles.
AvailabilitySettles(c) ==
  /\ c \in 1..Len(calls)
  /\ \E available \in BOOLEAN : IsAvailableSettles(c, available)

\* runExperiment call c awaits provider.rateImage.
AwaitsRating(c) ==
  c <= Len(calls) /\ calls[c].pc \in {"rateImage1", "rateImage2"}

\* provider.rateImage of runExperiment call c settles.
RatingSettles(c) ==
  /\ c \in 1..Len(calls)
  /\ RateImage1Settles(c) \/ RateImage2Settles(c)

\* The steps of RatingSettles(c) are the steps that change the locals of a
\* call c that awaits provider.rateImage.
RatingSettlesAreSteps ==
  [][\A c \in 1..MaxCalls :
       RatingSettles(c) <=> (AwaitsRating(c) /\ calls'[c] # calls[c])]_vars

\* Weak fairness of RatingSettles(c), which is enabled exactly when call c
\* awaits provider.rateImage: a call that awaits it for ever takes
\* RatingSettles(c) steps again and again.
RatingFairness(c) ==
  \/ []<>(~AwaitsRating(c))
  \/ []<><<AwaitsRating(c) /\ calls'[c] # calls[c]>>_vars

\* The hook when every provider call eventually settles.
SpecHookFair ==
  /\ HookInit
  /\ [][HookNext]_vars
  /\ \A c \in 1..MaxCalls : WF_vars(AvailabilitySettles(c))
  /\ \A c \in 1..MaxCalls : RatingFairness(c)

\* ------------------------------------- incompleteBeta and betaCF, stepwise

\* const bt of incompleteBeta
btOf(x, a, b) ==
  Exp(Add(Add(Sub(Sub(gammaLn(Add(a, b)), gammaLn(a)), gammaLn(b)),
              Mul(a, Log(x))),
          Mul(b, Log(Sub(Num(1), x)))))

\* The call frame on entry to betaCF(cfx, cfa, cfb), called from fn.
EnterBetaCF(fn, x, a, b, bt, cfx, cfa, cfb) ==
  [pc |-> "betaCF", fn |-> fn, x |-> x, a |-> a, b |-> b, bt |-> bt,
   cfx |-> cfx, cfa |-> cfa, cfb |-> cfb, cf |-> betaCFInit(cfx, cfa, cfb),
   out |-> Unset]

\* A caller calls betaCF(x, a, b): the function up to its loop.
CallBetaCF(x, a, b) ==
  /\ ib.pc = "idle"
  /\ ib' = EnterBetaCF("betaCF", x, a, b, Unset, x, a, b)
  /\ UNCHANGED <<sample1, sample2, alpha, meanOut, stdOut, tt, ttSwapped,
               rateVars, hookVars>>

\* A variant of the call of incompleteBeta without the two boundary returns.
CallIncompleteBetaNoBoundary(x, a, b) ==
  /\ ib.pc = "idle"
  /\ ib' = IF Lt(x, Div(Add(a, Num(1)), Add(Add(a, b), Num(2))))
           THEN EnterBetaCF("incompleteBeta", x, a, b, btOf(x, a, b), x, a, b)
           ELSE EnterBetaCF("incompleteBeta", x, a, b, btOf(x, a, b),
                            Sub(Num(1), x), b, a)
  /\ UNCHANGED <<sample1, sample2, alpha, meanOut, stdOut, tt, ttSwapped,
               rateVars, hookVars>>

\* A caller calls incompleteBeta(x, a, b): the function up to its return at
\* a boundary, or up to the loop of the betaCF call it makes.
CallIncompleteBeta(x, a, b) ==
  /\ ib.pc = "idle"
  /\ ib' = IF StrictEq(x, Num(0))
           THEN [IbIdle EXCEPT !.pc = "returned", !.fn = "incompleteBeta",
                               !.x = x, !.a = a, !.b = b, !.out = Num(0)]
           ELSE IF StrictEq(x, Num(1))
           THEN [IbIdle EXCEPT !.pc = "returned", !.fn = "incompleteBeta",
                               !.x = x, !.a = a, !.b = b, !.out = Num(1)]
           ELSE IF Lt(x, Div(Add(a, Num(1)), Add(Add(a, b), Num(2))))
           THEN EnterBetaCF("incompleteBeta", x, a, b, btOf(x, a, b), x, a, b)
           ELSE EnterBetaCF("incompleteBeta", x, a, b, btOf(x, a, b),
                            Sub(Num(1), x), b, a)
  /\ UNCHANGED <<sample1, sample2, alpha, meanOut, stdOut, tt, ttSwapped,
               rateVars, hookVars>>

\* A variant of the loop of betaCF without its break statement.
BetaCFIterateNoBreak ==
  /\ ib.pc = "betaCF"
  /\ ib.cf.i < maxIterations
  /\ ib' = [ib EXCEPT !.cf = betaCFIter(ib.cf, ib.cfx, ib.cfa, ib.cfb)]
  /\ UNCHANGED <<sample1, sample2, alpha, meanOut, stdOut, tt, ttSwapped,
               rateVars, hookVars>>

\* One iteration of the loop of betaCF.
BetaCFIterate ==
  /\ ib.pc = "betaCF"
  /\ ~ib.cf.brk
  /\ ib.cf.i < maxIterations
  /\ ib' = [ib EXCEPT !.cf = betaCFIter(ib.cf, ib.cfx, ib.cfa, ib.cfb)]
  /\ UNCHANGED <<sample1, sample2, alpha, meanOut, stdOut, tt, ttSwapped,
               rateVars, hookVars>>

\* The loop of betaCF is left, betaCF returns h, and incompleteBeta, where
\* it is the caller, returns.
BetaCFReturn ==
  /\ ib.pc = "betaCF"
  /\ ib.cf.brk \/ ib.cf.i >= maxIterations
  /\ ib' = [ib EXCEPT
       !.pc = "returned",
       !.out = IF ib.fn = "betaCF" THEN ib.cf.h
               ELSE IF Lt(ib.x, Div(Add(ib.a, Num(1)),
                                    Add(Add(ib.a, ib.b), Num(2))))
               THEN Div(Mul(ib.bt, ib.cf.h), ib.a)
               ELSE Sub(Num(1), Div(Mul(ib.bt, ib.cf.h), ib.b))]
  /\ UNCHANGED <<sample1, sample2, alpha, meanOut, stdOut, tt, ttSwapped,
               rateVars, hookVars>>

\* No call of the statistics service, the providers or the hook is made.
BetaInit ==
  /\ NoSamples
  /\ RateIdle
  /\ HookIdle

BetaNext ==
  \/ \E x \in BetaXs, a \in BetaAs, b \in BetaBs : CallBetaCF(x, a, b)
  \/ \E x \in BetaXs, a \in BetaAs, b \in BetaBs : CallIncompleteBeta(x, a, b)
  \/ BetaCFIterate
  \/ BetaCFReturn

SpecBeta == BetaInit /\ [][BetaNext]_vars

\* The loop and the return of betaCF are synchronous code: a call that has
\* entered the function goes on until it has returned.
\* The loop of betaCF can make an iteration.
CanIterate == ib.pc = "betaCF" /\ ~ib.cf.brk /\ ib.cf.i < maxIterations

\* The steps of BetaCFIterate are the steps from a state of CanIterate that
\* make an iteration.
IterationsAreSteps ==
  [][BetaCFIterate <=> (CanIterate /\ ib'.pc = "betaCF" /\ ib' # ib)]_vars

\* Weak fairness of BetaCFIterate, WF_vars(BetaCFIterate), written with the
\* state predicate CanIterate for its enabledness.
IterateFairness ==
  \/ []<>(~CanIterate)
  \/ []<><<CanIterate /\ ib'.pc = "betaCF" /\ ib' # ib>>_vars

SpecBetaFair ==
  /\ BetaInit
  /\ [][BetaNext]_vars
  /\ IterateFairness
  /\ WF_vars(BetaCFReturn)

\* The program: its statistics service, its providers and its hook.
Init == DescInit \/ StatsInit \/ RateInit \/ HookInit \/ BetaInit

Next == DescNext \/ StatsNext \/ RateNext \/ HookNext \/ BetaNext

Spec == Init /\ [][Next]_vars

\* ------------------------------------------------------------ properties

Nines == <<9, 9, 9, 9, 9, 9, 9, 9, 9, 9>>

Twos == <<2, 2, 2, 2, 2, 2, 2, 2, 2, 2>>

\* Whether all elements of a sample are equal.
IsConstant(sample) == \A i, j \in 1..Len(sample) : sample[i] = sample[j]

\* C1: for sample1 = ten values of 9 and sample2 = ten values of 2,
\* independentTTest returns a tStatistic above 2, a pValue below 0.05,
\* isSignificant true and an effectSize above 2.
C1_ClearSeparation ==
  (sample1 = Nines /\ sample2 = Twos /\ tt # Unset) =>
    /\ Lt(Num(2), tt.tStatistic)
    /\ Lt(tt.pValue, Fin(500))
    /\ tt.isSignificant
    /\ Lt(Num(2), tt.effectSize)

\* The standard error of the two samples of the caller, from what the
\* t-test returned.
StandardError ==
  se(Square(tt.std1), Num(Len(sample1)), Square(tt.std2), Num(Len(sample2)))

\* C2: whenever the standard error is zero, independentTTest returns a
\* tStatistic that is NaN, Infinity or -Infinity, a pValue that is NaN, and
\* isSignificant false; the standard error is zero whenever both samples
\* are non-empty and constant.
C2_ZeroStandardError ==
  tt # Unset =>
    /\ (Len(sample1) > 0 /\ Len(sample2) > 0
          /\ IsConstant(sample1) /\ IsConstant(sample2))
         => StandardError = Num(0)
    /\ StandardError = Num(0) =>
         /\ tt.tStatistic \in {NaN, PosInf, NegInf}
         /\ tt.pValue = NaN
         /\ tt.isSignificant = FALSE

\* C2 witness: two constant samples with different means have been tested.
C2_Witness ==
  /\ sample1 = <<9, 9>>
  /\ sample2 = <<2, 2>>
  /\ tt # Unset
  /\ StandardError = Num(0)
  /\ tt.tStatistic = PosInf
  /\ tt.pValue = NaN

C4_Symmetry ==
  (tt # Unset /\ ttSwapped # Unset) =>
    /\ tt.tStatistic = Neg(ttSwapped.tStatistic)
    /\ tt.pValue = ttSwapped.pValue
    /\ tt.isSignificant = ttSwapped.isSignificant

\* C4 witness: both orders have been tested for samples with different
\* means, and the tStatistic is finite and not zero.
C4_Witness ==
  /\ tt # Unset
  /\ ttSwapped # Unset
  /\ IsFin(tt.tStatistic)
  /\ Lt(Num(0), tt.tStatistic)
  /\ Lt(ttSwapped.tStatistic, Num(0))

\* A degenerate input of C4: a sample of one element has been tested in
\* both orders and the tStatistic is infinite.
C4_Degenerate ==
  /\ tt # Unset
  /\ ttSwapped # Unset
  /\ Len(sample1) = 1
  /\ tt.tStatistic = PosInf
  /\ ttSwapped.tStatistic = NegInf

\* C5 as stated: pValue is a real number in [0, 1] for every pair of
\* samples.
C5_UnitInterval ==
  tt # Unset =>
    /\ IsFin(tt.pValue)
    /\ Lt(Fin(-1), tt.pValue)
    /\ Lt(tt.pValue, Fin(Scale + 1))

\* C5: pValue is a real number in [0, 1] when both samples have two or more
\* elements and are not both constant; it is NaN when a sample has fewer
\* than two elements, and when both samples are constant with equal means.
C5_UnitIntervalOrNaN ==
  tt # Unset =>
    /\ (Len(sample1) < 2 \/ Len(sample2) < 2) => tt.pValue = NaN
    /\ (IsConstant(sample1) /\ IsConstant(sample2) /\ tt.mean1 = tt.mean2)
         => tt.pValue = NaN
    /\ (Len(sample1) >= 2 /\ Len(sample2) >= 2
          /\ ~(IsConstant(sample1) /\ IsConstant(sample2))) =>
         /\ IsFin(tt.pValue)
         /\ Lt(Fin(-1), tt.pValue)
         /\ Lt(tt.pValue, Fin(Scale + 1))

\* C5 witness: two samples of two or more elements, not both constant, got
\* a pValue strictly between 0 and 1.
C5_Witness ==
  /\ Len(sample1) >= 2
  /\ Len(sample2) >= 2
  /\ ~IsConstant(sample1)
  /\ tt # Unset
  /\ Lt(Num(0), tt.pValue)
  /\ Lt(tt.pValue, Num(1))

\* C6: when either sample has exactly one element, degreesOfFreedom is NaN,
\* pValue is NaN and isSignificant is false.
C6_SingleElement ==
  (tt # Unset /\ (Len(sample1) = 1 \/ Len(sample2) = 1)) =>
    /\ tt.degreesOfFreedom = NaN
    /\ tt.pValue = NaN
    /\ tt.isSignificant = FALSE

\* C6 witness: a sample of one element has been tested against a sample
\* with a variance, and the tStatistic is finite.
C6_Witness ==
  /\ Len(sample1) = 1
  /\ Len(sample2) >= 2
  /\ ~IsConstant(sample2)
  /\ tt # Unset
  /\ IsFin(tt.tStatistic)
  /\ tt.degreesOfFreedom = NaN

\* The sum of the first n elements of a sample of integers.
RECURSIVE SumTo(_, _)
SumTo(sample, n) == IF n = 0 THEN 0 ELSE SumTo(sample, n - 1) + sample[n]

\* The sum of the squares of the first n elements.
RECURSIVE SumSquaresTo(_, _)
SumSquaresTo(sample, n) ==
  IF n = 0 THEN 0 ELSE SumSquaresTo(sample, n - 1) + sample[n] * sample[n]

\* sum((x - mean)^2) / (n - 1) of a sample of n >= 2 integers, as the
\* fraction (n * sum(x^2) - sum(x)^2) / (n * (n - 1)) in fixed point.
ReferenceVariance(sample) ==
  LET n == Len(sample)
      sum == SumTo(sample, n)
  IN  ((n * SumSquaresTo(sample, n) - sum * sum) * Scale) \div (n * (n - 1))

\* Whether the number std is the square root of the fixed-point value
\* variance, to within 2 units of the resolution.
IsSqrtOf(std, variance) ==
  /\ IsFin(std)
  /\ std.v >= 0
  /\ (std.v <= 2 \/ MulRaw(std.v - 2, std.v - 2) <= variance)
  /\ variance <= MulRaw(std.v + 2, std.v + 2)

\* The results of mean and standardDeviation follow the reference formulas.
DescriptiveReference ==
  /\ meanOut # Unset =>
       /\ IsFin(meanOut)
       /\ IF Len(sample1) = 0 THEN meanOut = Num(0)
          ELSE /\ meanOut.v * Len(sample1) <= SumTo(sample1, Len(sample1)) * Scale
               /\ SumTo(sample1, Len(sample1)) * Scale
                    < (meanOut.v + 1) * Len(sample1)
  /\ stdOut # Unset =>
       IF Len(sample1) < 2 THEN stdOut = Num(0)
       ELSE IsSqrtOf(stdOut, ReferenceVariance(sample1))

\* C7: mean returns 0 for an empty sequence and sum / n otherwise;
\* standardDeviation returns 0 for a sequence of length below 2 and
\* otherwise sqrt(sum((x - mean)^2) / (n - 1)); both return a number and
\* leave the sequence they are given as it was.
C7_Descriptive ==
  /\ []DescriptiveReference
  /\ [][sample1' = sample1]_vars

\* C7 witness: both functions have returned for a sample of three different
\* values, the standard deviation is not zero.
C7_Witness ==
  /\ sample1 = <<1, 5, 10>>
  /\ meanOut # Unset
  /\ stdOut # Unset
  /\ Lt(Num(4), stdOut)
  /\ Lt(stdOut, Num(5))

\* The maximal run of word characters of str that starts at character p.
RECURSIVE WordAt(_, _)
WordAt(str, p) ==
  IF p > Len(str) \/ ~IsWordChar(str[p]) THEN <<>>
  ELSE <<str[p]>> \o WordAt(str, p + 1)

\* The words "1" .. "9" and "10".
RatingWords == {<<d>> : d \in 49..57} \cup {<<49, 48>>}

\* The first word of str from character p on that is a rating word, as a
\* number, or 5 when there is none.
RECURSIVE FirstRatingWord(_, _)
FirstRatingWord(str, p) ==
  IF p > Len(str) THEN 5
  ELSE IF WordAt(str, p) = <<>> THEN FirstRatingWord(str, p + 1)
  ELSE IF WordAt(str, p) \in RatingWords
       THEN (IF Len(WordAt(str, p)) = 2 THEN 10 ELSE str[p] - 48)
  ELSE FirstRatingWord(str, p + Len(WordAt(str, p)))

\* C8: a rating that rateImage resolves to is an integer from 1 to 10; for
\* the Ollama provider it is the first standalone number 1 .. 10 of the
\* response text, or 5 when the text has none.
C8_RatingRange ==
  (rating # Unset /\ rating.k # "rejected") =>
    /\ IsInteger(rating)
    /\ rating.v \in {r * Scale : r \in 1..10}
    /\ providerName = "ollama" =>
         rating = Num(FirstRatingWord(reply.content, 1))

\* C8 witness: the Ollama provider has resolved the response " 10" to 10.
C8_Witness ==
  /\ providerName = "ollama"
  /\ reply.kind = "ok"
  /\ reply.content = <<32, 49, 48>>
  /\ rating = Num(10)

\* C8 witness of the mock provider: a rating of 1 has been resolved.
C8_MockWitness ==
  /\ providerName = "mock"
  /\ rating = Num(1)

\* C9: progress.current never exceeds progress.total.
C9_ProgressWithinTotal == progress.current <= progress.total

\* C10: results and error are never both non-null.
C10_ResultsXorError == ~(results # Null /\ error # Null)

\* runExperiment call c has been made and has not returned.
InFlight(c) == c <= Len(calls) /\ calls[c].pc # "done"

\* runExperiment call c has returned.
Returned(c) == c <= Len(calls) /\ calls[c].pc = "done"

\* A step in which a runExperiment call returns ends with isRunning false,
\* whether the call is made and returns in that step or was in flight; a
\* call that returns from the isAvailable await with no result has set the
\* error and has collected no rating.
ReturnClearsIsRunning ==
  /\ \A c \in 1..Len(calls') :
       (calls'[c].pc = "done" /\ (c > Len(calls) \/ calls[c].pc # "done"))
         => isRunning' = FALSE
  /\ \A c \in 1..Len(calls) :
       (calls[c].pc = "isAvailable" /\ calls'[c].pc = "done")
         => /\ calls[c].ratings1 = <<>>
            /\ progress' = progress
            /\ error' # Null

\* C11: every runExperiment call eventually returns, provided every
\* provider call settles, and the step in which it returns sets isRunning
\* to false: after all ratings, for an unknown provider, for an unavailable
\* provider (with no rateImage call made) and for a rejected rating call.
C11_EventuallyNotRunning ==
  /\ \A c \in 1..MaxCalls : InFlight(c) ~> (Returned(c) /\ ~InFlight(c))
  /\ [][ReturnClearsIsRunning]_vars

\* C11 witness: the only call made has returned from an unavailable
\* provider, and isRunning is false.
C11_Witness ==
  /\ Len(calls) = 1
  /\ calls[1].pc = "done"
  /\ error = String("Provider is not available")
  /\ results = Null
  /\ progress.current = 0
  /\ isRunning = FALSE

\* The loop of betaCF is running.
InLoop == ib.pc = "betaCF"

\* The break condition of betaCF after the odd step of an iteration.
Converged(st) == st.i >= 1 /\ Lt(Abs(Sub(st.del, Num(1))), epsilon)

\* An iteration is made only while the loop has neither converged nor used
\* up its iterations, and it is one even and one odd step.
IterationStep ==
  InLoop /\ ib'.pc = "betaCF"
    => /\ ~ib.cf.brk
       /\ ib.cf.i < maxIterations
       /\ ib'.cf.i = ib.cf.i + 1
       /\ ib'.cf = betaCFIter(ib.cf, ib.cfx, ib.cfa, ib.cfb)

\* The loop is left at convergence or at the cap, and in no other state.
ReturnStep ==
  InLoop /\ ib'.pc = "returned"
    => /\ ib.cf.brk \/ ib.cf.i = maxIterations
       /\ ib'.cf = ib.cf
       /\ ib.fn = "betaCF" => ib'.out = ib.cf.h

\* C12: betaCF always terminates, after at most 100 iterations of its loop,
\* each of one even and one odd step; it leaves the loop early exactly when
\* |del - 1| < epsilon after an odd step; and it returns the current h, a
\* number and no error, also when the iterations are used up without
\* convergence.
C12_BetaCFTerminates ==
  /\ [](InLoop => /\ ib.cf.i \in 0..maxIterations
                  /\ ib.cf.brk <=> Converged(ib.cf))
  /\ [][IterationStep]_vars
  /\ [][ReturnStep]_vars
  /\ [](ib.pc = "returned" /\ ib.fn = "betaCF"
          => /\ ib.out = ib.cf.h
             /\ ib.out.k \in {"fin", "nan", "inf", "ninf"}
             /\ ib.out = betaCF(ib.x, ib.a, ib.b))
  /\ InLoop ~> (ib.pc = "returned")

\* betaCF has returned h after 100 iterations without convergence.
C12_Witness ==
  /\ ib.pc = "returned"
  /\ ib.fn = "betaCF"
  /\ ib.cf.i = maxIterations
  /\ ~ib.cf.brk
  /\ ib.out = ib.cf.h

\* betaCF has returned h after convergence, before the cap.
C12_EarlyWitness ==
  /\ ib.pc = "returned"
  /\ ib.fn = "betaCF"
  /\ ib.cf.i \in 1..(maxIterations - 1)
  /\ ib.cf.brk
  /\ IsFin(ib.out)

\* (a + 1) / (a + b + 2), the bound on x of the first continued fraction.
BranchBound(a, b) == Div(Add(a, Num(1)), Add(Add(a, b), Num(2)))

\* A call of incompleteBeta returns at a boundary without the prefactor and
\* without a call of betaCF.
ShortCircuit(value) ==
  /\ ib.pc = "returned"
  /\ ib.out = value
  /\ ib.bt = Unset
  /\ ib.cf = Unset

\* A call of incompleteBeta evaluates betaCF(x, a, b) and returns
\* bt * betaCF(x, a, b) / a.
FirstFraction ==
  /\ <<ib.cfx, ib.cfa, ib.cfb>> = <<ib.x, ib.a, ib.b>>
  /\ ib.pc = "returned"
       => ib.out = Div(Mul(ib.bt, betaCF(ib.x, ib.a, ib.b)), ib.a)

\* A call of incompleteBeta evaluates betaCF(1 - x, b, a) and returns
\* 1 - bt * betaCF(1 - x, b, a) / b.
SecondFraction ==
  /\ <<ib.cfx, ib.cfa, ib.cfb>> = <<Sub(Num(1), ib.x), ib.b, ib.a>>
  /\ ib.pc = "returned"
       => ib.out = Sub(Num(1),
                       Div(Mul(ib.bt, betaCF(Sub(Num(1), ib.x), ib.b, ib.a)),
                           ib.b))

\* C13: for a, b > 0, incompleteBeta(x, a, b) returns exactly 0 at x = 0 and
\* exactly 1 at x = 1, before it evaluates the prefactor bt (no logarithm, no
\* gammaLn) or betaCF; for every other x in (0, 1) it returns
\* bt * betaCF(x, a, b) / a when x < (a + 1) / (a + b + 2) and
\* 1 - bt * betaCF(1 - x, b, a) / b otherwise.
C13_BoundariesAndBranches ==
  ib.fn = "incompleteBeta" /\ Lt(Num(0), ib.a) /\ Lt(Num(0), ib.b)
    => /\ StrictEq(ib.x, Num(0)) => ShortCircuit(Num(0))
       /\ StrictEq(ib.x, Num(1)) => ShortCircuit(Num(1))
       /\ Lt(Num(0), ib.x) /\ Lt(ib.x, Num(1))
            => /\ ib.bt = btOf(ib.x, ib.a, ib.b)
               /\ ib.cf # Unset
               /\ IF Lt(ib.x, BranchBound(ib.a, ib.b))
                  THEN FirstFraction
                  ELSE SecondFraction
               /\ ib.pc = "returned"
                    => ib.out = incompleteBeta(ib.x, ib.a, ib.b)

\* incompleteBeta has returned 0 at x = 0 with no prefactor and no betaCF.
C13_Witness ==
  /\ ib.fn = "incompleteBeta"
  /\ StrictEq(ib.x, Num(0))
  /\ ShortCircuit(Num(0))

\* incompleteBeta has returned 1 at x = 1 with no prefactor and no betaCF.
C13_UpperWitness ==
  /\ ib.fn = "incompleteBeta"
  /\ StrictEq(ib.x, Num(1))
  /\ ShortCircuit(Num(1))

\* incompleteBeta has returned by its first continued fraction.
C13_FirstWitness ==
  /\ ib.fn = "incompleteBeta"
  /\ Lt(Num(0), ib.x)
  /\ Lt(ib.x, BranchBound(ib.a, ib.b))
  /\ ib.pc = "returned"
  /\ IsFin(ib.out)
  /\ Lt(Num(0), ib.out)

\* incompleteBeta has returned by its second continued fraction.
C13_SecondWitness ==
  /\ ib.fn = "incompleteBeta"
  /\ Lt(ib.x, Num(1))
  /\ ~Lt(ib.x, BranchBound(ib.a, ib.b))
  /\ ib.pc = "returned"
  /\ IsFin(ib.out)
  /\ Lt(ib.out, Num(1))

====
